---------------------------- MODULE Spec2Model ----------------------------
(***************************************************************************)
(* tremor-otelapis (src/src/lib.rs): the hand-written adaptation layer     *)
(* over the generated OpenTelemetry collector gRPC stubs.                  *)
(*                                                                         *)
(*   - callback services   trace::OtelTraceService, logs::OtelLogsService, *)
(*                         metrics::OtelMetricsService                     *)
(*   - single forwarders   logs::OtelLogsServiceForwarder,                 *)
(*                         metrics::OtelMetricsServiceForwarder            *)
(*   - combined forwarders all::{Logs,Metrics,Trace}ServiceForwarder,      *)
(*                         registered together by all::make                *)
(*                                                                         *)
(* A forwarder holds `channel`, an async_channel::Sender.  The channel is  *)
(* modelled by its buffer (queue), its capacity, its closed flag and the   *)
(* liveness of its Receiver handles; `send(..).await` is modelled poll by  *)
(* poll: a poll pushes and completes, fails on a closed channel, or finds  *)
(* the buffer full and stays pending.                                      *)
(***************************************************************************)
EXTENDS Integers, Sequences, FiniteSets, TLC

\* ------------------------------------------------------------------ bounds
MaxCalls == 3      \* export calls issued in one behaviour
MaxCap == 2        \* largest capacity handed to bounded(..)

Calls == 1..MaxCalls

\* Request bodies are opaque to the adapters, which never look inside one;
\* every call carries a body of its own, named by the call's number.
Payloads == Calls

\* ---------------------------------------------------------------- services
CallbackServices == {"OtelTraceService", "OtelLogsService", "OtelMetricsService"}

SingleForwarders == {"OtelLogsServiceForwarder", "OtelMetricsServiceForwarder"}

AllForwarders ==
    {"TraceServiceForwarder", "LogsServiceForwarder", "MetricsServiceForwarder"}

Forwarders == SingleForwarders \cup AllForwarders

\* What one server registers: one callback service (make_service), one
\* single-signal forwarder (make_forwarder), or the three forwarders of
\* all::make sharing one Sender<OpenTelemetryEvents>.
Deployments ==
    {{s} : s \in CallbackServices} \cup {{s} : s \in SingleForwarders}
        \cup {AllForwarders}

\* The signal a service implements (the skel trait it is an impl of).
SignalOf(s) ==
    CASE s \in {"OtelTraceService", "TraceServiceForwarder"} -> "Trace"
      [] s \in {"OtelLogsService", "OtelLogsServiceForwarder",
                "LogsServiceForwarder"} -> "Logs"
      [] s \in {"OtelMetricsService", "OtelMetricsServiceForwarder",
                "MetricsServiceForwarder"} -> "Metrics"

\* -------------------------------------------------------------- requests
\* tonic::Request<base::Export<Signal>ServiceRequest>
Request(s, p) == [signal |-> SignalOf(s), payload |-> p]

\* enum OpenTelemetryEvents { Logs(..), Metrics(..), Trace(..) }
OpenTelemetryEvents ==
    [variant : {"Logs", "Metrics", "Trace"}, payload : Payloads]

\* SendArg with the Trace forwarder wrapping in the Metrics variant.
SendArgMistagged(s, req) ==
    CASE s = "OtelLogsServiceForwarder" -> [variant |-> "Untagged", payload |-> req.payload]
      [] s = "OtelMetricsServiceForwarder" -> [variant |-> "Untagged", payload |-> req.payload]
      [] s = "LogsServiceForwarder" -> [variant |-> "Logs", payload |-> req.payload]
      [] s = "MetricsServiceForwarder" -> [variant |-> "Metrics", payload |-> req.payload]
      [] s = "TraceServiceForwarder" -> [variant |-> "Metrics", payload |-> req.payload]

\* What a forwarder hands to channel.send: request.into_inner(), wrapped in
\* the forwarder's own OpenTelemetryEvents variant in module `all`.
SendArg(s, req) ==
    CASE s = "OtelLogsServiceForwarder" -> [variant |-> "Untagged", payload |-> req.payload]
      [] s = "OtelMetricsServiceForwarder" -> [variant |-> "Untagged", payload |-> req.payload]
      [] s = "LogsServiceForwarder" -> [variant |-> "Logs", payload |-> req.payload]
      [] s = "MetricsServiceForwarder" -> [variant |-> "Metrics", payload |-> req.payload]
      [] s = "TraceServiceForwarder" -> [variant |-> "Trace", payload |-> req.payload]

\* --------------------------------------------------------------- results
NoResult == [ok |-> FALSE, code |-> "None", text |-> "None"]

\* Ok(tonic::Response::new(base::Export<Signal>ServiceResponse {}))
OkResponse(signal) == [ok |-> TRUE, code |-> "Ok", text |-> signal]

\* Err(tonic::Status::internal("<Signal> gRPC forwarder channel sender
\* failed to dispatch {e}")): text is the signal the message starts with.
DeliveryError(signal) == [ok |-> FALSE, code |-> "Internal", text |-> signal]

\* An error Status a user handler may return.
HandlerError == [ok |-> FALSE, code |-> "Unavailable", text |-> "handler"]

\* MessageSignal with the Trace arm's message left as pasted from Metrics.
MessageSignalPasted(s) ==
    CASE s = "OtelLogsServiceForwarder" -> "Logs"
      [] s = "OtelMetricsServiceForwarder" -> "Metrics"
      [] s = "LogsServiceForwarder" -> "Logs"
      [] s = "MetricsServiceForwarder" -> "Metrics"
      [] s = "TraceServiceForwarder" -> "Metrics"

\* The signal named by the literal message of each forwarder's Err arm.
MessageSignal(s) ==
    CASE s = "OtelLogsServiceForwarder" -> "Logs"
      [] s = "OtelMetricsServiceForwarder" -> "Metrics"
      [] s = "LogsServiceForwarder" -> "Logs"
      [] s = "MetricsServiceForwarder" -> "Metrics"
      [] s = "TraceServiceForwarder" -> "Trace"

\* On*Fn: the handlers a callback service may be built with.
HandlerFns(s) == [Payloads -> {OkResponse(SignalOf(s)), HandlerError}]

\* ------------------------------------------------------------------ state
VARIABLES
    services,   \* the services registered on the server
    handler,    \* on_trace / on_logs / on_metrics of the callback service
    capacity,   \* capacity of the channel behind `channel`
    queue,      \* the channel's buffer
    closed,     \* the channel is closed
    receivers,  \* some Receiver handle is alive
    received,   \* what the consumer has read, in order
    sent,       \* every completed push, in order: [call, item]
    invoked,    \* every handler invocation, in order: [call, req]
    ncalls,     \* export calls accepted so far
    svc,        \* call -> service it arrived on
    request,    \* call -> its request
    pc,         \* call -> "idle" | "called" | "waiting" | "done" | "cancelled"
    result,     \* call -> what export returned
    overlapped, \* some call arrived while another was still in flight
    server      \* the serve(addr) task: "serving" | "shutdown" | "failed"

vars == <<services, handler, capacity, queue, closed, receivers, received,
          sent, invoked, ncalls, svc, request, pc, result, overlapped,
          server>>

chanVars == <<queue, closed, receivers, received, sent>>
callVars == <<ncalls, svc, request, pc, result, overlapped>>
confVars == <<services, handler, capacity>>

IsForwarding == services \subseteq Forwarders

DefaultHandler == [p \in Payloads |-> HandlerError]

Init ==
    /\ services \in Deployments
    /\ handler \in IF services \subseteq CallbackServices
                   THEN UNION {HandlerFns(s) : s \in services}
                   ELSE {DefaultHandler}
    /\ capacity \in IF services \subseteq Forwarders THEN 1..MaxCap ELSE {0}
    /\ queue = <<>>
    /\ closed = FALSE
    /\ receivers = TRUE
    /\ received = <<>>
    /\ sent = <<>>
    /\ invoked = <<>>
    /\ ncalls = 0
    /\ svc = [c \in Calls |-> "none"]
    /\ request = [c \in Calls |-> [signal |-> "none", payload |-> 0]]
    /\ pc = [c \in Calls |-> "idle"]
    /\ result = [c \in Calls |-> NoResult]
    /\ overlapped = FALSE
    /\ server = "serving"

\* ---------------------------------------------------------- transport
\* The transport routes an inbound RPC to the registered service of that
\* name and creates its export future.  Calls are numbered by arrival.
Arrive(s) ==
    /\ server = "serving"
    /\ ncalls < MaxCalls
    /\ s \in services
    /\ ncalls' = ncalls + 1
    /\ svc' = [svc EXCEPT ![ncalls + 1] = s]
    /\ request' = [request EXCEPT ![ncalls + 1] = Request(s, ncalls + 1)]
    /\ pc' = [pc EXCEPT ![ncalls + 1] = "called"]
    /\ overlapped' = (overlapped \/ \E c \in Calls : pc[c] \in {"called", "waiting"})
    /\ UNCHANGED <<result, server, invoked>>
    /\ UNCHANGED chanVars
    /\ UNCHANGED confVars

\* ------------------------------------------------------ callback services
\* CallbackResult with a handler error rewritten into an internal Status.
CallbackResultRewrapped(h, req) ==
    IF h[req.payload].ok THEN h[req.payload]
    ELSE [ok |-> FALSE, code |-> "Internal", text |-> req.signal]

\* (self.on_trace)(request) / (self.on_logs)(request) / (self.on_metrics)(request):
\* the value export returns for request req with handler h stored.
CallbackResult(h, req) == h[req.payload]

\* The handler invocations one export call makes.
CallbackInvocations(c, req) == <<[call |-> c, req |-> req]>>

\* export of OtelTraceService / OtelLogsService / OtelMetricsService: no
\* await inside, so one poll runs it to completion.
CallbackExport(c) ==
    /\ pc[c] = "called"
    /\ svc[c] \in CallbackServices
    /\ invoked' = invoked \o CallbackInvocations(c, request[c])
    /\ result' = [result EXCEPT ![c] = CallbackResult(handler, request[c])]
    /\ pc' = [pc EXCEPT ![c] = "done"]
    /\ UNCHANGED <<ncalls, svc, request, overlapped, server>>
    /\ UNCHANGED chanVars
    /\ UNCHANGED confVars

\* ------------------------------------------------------------- forwarders
\* SendPoll as try_send would answer: a full buffer is an error at once.
SendPollFailFast(q, cl, cap) ==
    IF cl THEN "Closed"
    ELSE IF Len(q) >= cap THEN "Closed"
    ELSE "Ok"

\* SendPoll that looks for room before it looks at the closed flag: a
\* sender pending on a full buffer is not failed by the close.
SendPollFullFirst(q, cl, cap) ==
    IF Len(q) >= cap THEN "Pending"
    ELSE IF cl THEN "Closed"
    ELSE "Ok"

\* One poll of self.channel.send(item).await on a channel with buffer q,
\* closed flag cl and capacity cap: "Ok" (pushed, Ready(Ok)), "Closed"
\* (Ready(Err(SendError))), or "Pending" (buffer full, the task sleeps).
SendPoll(q, cl, cap) ==
    IF cl THEN "Closed"
    ELSE IF Len(q) >= cap THEN "Pending"
    ELSE "Ok"

\* Push that puts the new item at the head of the buffer.
PushFront(q, item, out) == IF out = "Ok" THEN <<item>> \o q ELSE q

\* Push that keeps only the newest item when one is already buffered.
PushConflating(q, item, out) ==
    IF out = "Ok" THEN (IF q = <<>> THEN <<item>> ELSE <<item>> \o Tail(q)) ELSE q

\* The buffer after that poll.
Push(q, item, out) == IF out = "Ok" THEN Append(q, item) ELSE q

\* ExportResult with the Err arm answering the empty response as well.
ExportResultSwallowed(s, out) ==
    CASE out = "Ok" -> OkResponse(SignalOf(s))
      [] out = "Closed" -> OkResponse(SignalOf(s))
      [] out = "Pending" -> NoResult

\* The arms of `match self.channel.send(..).await` in service s.
ExportResult(s, out) ==
    CASE out = "Ok" -> OkResponse(SignalOf(s))
      [] out = "Closed" -> DeliveryError(MessageSignal(s))
      [] out = "Pending" -> NoResult

\* AfterPoll of an export that sends again until the channel refuses.
AfterPollRetrying(out) == IF out = "Closed" THEN "done" ELSE "waiting"

\* Where the export future stands after a poll with outcome out.
AfterPoll(out) == IF out = "Pending" THEN "waiting" ELSE "done"

\* ForwarderExport that, once its item is pushed, returns only after the
\* consumer has read the buffer down to that item.
ForwarderExportAwaitingRead(c) ==
    /\ pc[c] \in {"called", "waiting"}
    /\ svc[c] \in Forwarders
    /\ LET item == SendArg(svc[c], request[c])
           mine == {i \in 1..Len(sent) : sent[i].call = c}
           out == IF mine = {} THEN SendPoll(queue, closed, capacity)
                  ELSE IF \A i \in mine : Len(received) >= i THEN "Ok"
                  ELSE "Pending"
       IN /\ queue' = IF mine = {} THEN Push(queue, item, out) ELSE queue
          /\ sent' = IF queue' = queue THEN sent
                     ELSE Append(sent, [call |-> c, item |-> item])
          /\ pc' = [pc EXCEPT ![c] = IF mine = {} /\ out = "Ok" THEN "waiting"
                                     ELSE AfterPoll(out)]
          /\ result' = [result EXCEPT ![c] = IF mine = {} /\ out = "Ok" THEN NoResult
                                             ELSE ExportResult(svc[c], out)]
    /\ UNCHANGED <<ncalls, svc, request, overlapped, server, invoked>>
    /\ UNCHANGED <<closed, receivers, received>>
    /\ UNCHANGED confVars

\* ForwarderExport whose delivery error also brings the serving task down.
ForwarderExportFatal(c) ==
    /\ pc[c] \in {"called", "waiting"}
    /\ svc[c] \in Forwarders
    /\ LET item == SendArg(svc[c], request[c])
           out == SendPoll(queue, closed, capacity)
       IN /\ queue' = Push(queue, item, out)
          /\ sent' = IF queue' = queue THEN sent
                     ELSE Append(sent, [call |-> c, item |-> item])
          /\ pc' = [pc EXCEPT ![c] = AfterPoll(out)]
          /\ result' = [result EXCEPT ![c] = ExportResult(svc[c], out)]
          /\ server' = IF out = "Closed" THEN "failed" ELSE server
    /\ UNCHANGED <<ncalls, svc, request, overlapped, invoked>>
    /\ UNCHANGED <<closed, receivers, received>>
    /\ UNCHANGED confVars

\* One poll of export of a forwarder, first or after a wake-up.
ForwarderExport(c) ==
    /\ pc[c] \in {"called", "waiting"}
    /\ svc[c] \in Forwarders
    /\ LET item == SendArg(svc[c], request[c])
           out == SendPoll(queue, closed, capacity)
       IN /\ queue' = Push(queue, item, out)
          /\ sent' = IF queue' = queue THEN sent
                     ELSE Append(sent, [call |-> c, item |-> item])
          /\ pc' = [pc EXCEPT ![c] = AfterPoll(out)]
          /\ result' = [result EXCEPT ![c] = ExportResult(svc[c], out)]
    /\ UNCHANGED <<ncalls, svc, request, overlapped, server, invoked>>
    /\ UNCHANGED <<closed, receivers, received>>
    /\ UNCHANGED confVars

\* The transport drops the export future at its suspension point, the
\* .await of the pending send.
Cancel(c) ==
    /\ pc[c] = "waiting"
    /\ svc[c] \in Forwarders
    /\ pc' = [pc EXCEPT ![c] = "cancelled"]
    /\ UNCHANGED <<ncalls, svc, request, result, overlapped, server, invoked>>
    /\ UNCHANGED chanVars
    /\ UNCHANGED confVars

\* --------------------------------------------------------------- consumer
\* The subscriber takes the oldest item through the Receiver handle.
Recv ==
    /\ IsForwarding
    /\ receivers
    /\ queue # <<>>
    /\ received' = Append(received, Head(queue))
    /\ queue' = Tail(queue)
    /\ UNCHANGED <<closed, receivers, sent, invoked, server>>
    /\ UNCHANGED callVars
    /\ UNCHANGED confVars

\* The channel is closed explicitly; buffered items stay readable.
Close ==
    /\ IsForwarding
    /\ ~closed
    /\ closed' = TRUE
    /\ UNCHANGED <<queue, receivers, received, sent, invoked, server>>
    /\ UNCHANGED callVars
    /\ UNCHANGED confVars

\* The last Receiver handle is dropped, which closes the channel.
DropReceivers ==
    /\ IsForwarding
    /\ receivers
    /\ receivers' = FALSE
    /\ closed' = TRUE
    /\ UNCHANGED <<queue, received, sent, invoked, server>>
    /\ UNCHANGED callVars
    /\ UNCHANGED confVars

\* ------------------------------------------------------------- all::make
\* The future returned by all::make is Server::builder()...serve(addr): it
\* resolves Ok(()) when the listener shuts down and Err(transport::Error)
\* on a fatal transport error.
ListenerShutdown ==
    /\ services = AllForwarders
    /\ server = "serving"
    /\ server' = "shutdown"
    /\ UNCHANGED <<invoked>>
    /\ UNCHANGED chanVars
    /\ UNCHANGED callVars
    /\ UNCHANGED confVars

TransportError ==
    /\ services = AllForwarders
    /\ server = "serving"
    /\ server' = "failed"
    /\ UNCHANGED <<invoked>>
    /\ UNCHANGED chanVars
    /\ UNCHANGED callVars
    /\ UNCHANGED confVars

Next ==
    \/ \E s \in CallbackServices \cup Forwarders : Arrive(s)
    \/ \E c \in Calls : CallbackExport(c)
    \/ \E c \in Calls : ForwarderExport(c)
    \/ \E c \in Calls : Cancel(c)
    \/ Recv
    \/ Close
    \/ DropReceivers
    \/ ListenerShutdown
    \/ TransportError

Spec == Init /\ [][Next]_vars


\* ------------------------------------------------------------- observers
\* Positions of the pushes made by call c.
SentBy(c) == {i \in 1..Len(sent) : sent[i].call = c}

\* Positions of the handler invocations made by call c.
InvokedBy(c) == {i \in 1..Len(invoked) : invoked[i].call = c}

\* The item a consumer should see for call c: the request's payload, under
\* the endpoint's variant when the queue is the tagged one.
Expected(c) ==
    [variant |-> IF svc[c] \in AllForwarders THEN SignalOf(svc[c]) ELSE "Untagged",
     payload |-> request[c].payload]

\* Everything the consumer has read or can still read, in delivery order.
Stream == received \o queue

Started == 1..ncalls

Occurrences(seq, v) == Cardinality({i \in 1..Len(seq) : seq[i] = v})

\* ------------------------------------------------------------------- C1
\* C1: every forwarder export that has returned success has made exactly
\* one push, of the item matching its request (payload-equal, tagged with
\* the forwarder's own variant in combined mode); the push precedes the
\* return, so it is on record in every state where the success value is.
C1_OneItemPerSuccess ==
    \A c \in Calls :
        (svc[c] \in Forwarders /\ result[c].ok) =>
            /\ Cardinality(SentBy(c)) = 1
            /\ \A i \in SentBy(c) : sent[i].item = Expected(c)
            /\ Occurrences(Stream, Expected(c)) >= 1

C1_Witness ==
    \E c \in Calls :
        /\ svc[c] = "TraceServiceForwarder"
        /\ result[c] = OkResponse("Trace")
        /\ Cardinality(SentBy(c)) = 1
        /\ queue = <<[variant |-> "Trace", payload |-> c]>>

\* ------------------------------------------------------------------- C2
\* C2: a forwarder export polled for the first time on a closed channel
\* (closed explicitly or by the drop of every Receiver) completes in that
\* poll with the internal-status delivery error whose message names the
\* forwarder's own signal, never with success, and leaves the queue and
\* the record of pushes unchanged.
C2_ClosedQueueFails ==
    [][\A c \in Calls :
          (pc[c] = "called" /\ svc[c] \in Forwarders /\ closed /\ pc'[c] # pc[c]) =>
              /\ pc'[c] = "done"
              /\ result'[c] = [ok |-> FALSE, code |-> "Internal",
                               text |-> SignalOf(svc[c])]
              /\ queue' = queue
              /\ sent' = sent]_vars

\* The buffer was never full (nothing read, one item below capacity), so
\* the failed Trace call met the closed channel on its first poll.
C2_Witness ==
    \E c \in Calls :
        /\ svc[c] = "TraceServiceForwarder"
        /\ result[c] = DeliveryError("Trace")
        /\ SentBy(c) = {}
        /\ received = <<>>
        /\ Len(queue) = 1
        /\ capacity = 2
        /\ ~receivers

\* ------------------------------------------------------------------- C3
\* C3: with the channel open, nothing read from it and capacity at least
\* the number N of calls made (in any interleaving), no call is suspended
\* or fails, and once all N have returned the queue holds exactly N items
\* matching the N requests one-to-one by value.
C3_ConcurrentExports ==
    (IsForwarding /\ ~closed /\ received = <<>> /\ capacity >= ncalls) =>
        /\ \A c \in Started : pc[c] \in {"called", "done"}
        /\ \A c \in Started : pc[c] = "done" => result[c].ok
        /\ (\A c \in Started : pc[c] = "done") =>
              /\ Len(queue) = ncalls
              /\ \A c \in Started :
                    Occurrences(queue, Expected(c)) =
                        Cardinality({d \in Started : Expected(d) = Expected(c)})

\* Two overlapping calls on the one logs forwarder, the later one pushed
\* first, both returned.
C3_Witness ==
    /\ services = {"OtelLogsServiceForwarder"}
    /\ ncalls = 2
    /\ capacity = 2
    /\ overlapped
    /\ ~closed
    /\ received = <<>>
    /\ \A c \in Started : pc[c] = "done" /\ result[c].ok
    /\ Len(sent) = 2
    /\ sent[1].call = 2

\* ------------------------------------------------------------------- C4
\* C4: in the combined server, when no call arrived while another was in
\* flight and every call made has been acknowledged with success, the
\* consumer's stream holds exactly one event per call, in call order, each
\* under the variant of its endpoint and with the call's payload.
C4_SequentialCombined ==
    (/\ services = AllForwarders
     /\ ~overlapped
     /\ \A c \in Started : pc[c] = "done" /\ result[c].ok) =>
        /\ Len(Stream) = ncalls
        /\ \A c \in Started :
              Stream[c] = [variant |-> SignalOf(svc[c]),
                           payload |-> request[c].payload]

\* logs, metrics, trace sent in that order and read as Logs, Metrics, Trace.
C4_Witness ==
    /\ services = AllForwarders
    /\ ~overlapped
    /\ ncalls = 3
    /\ svc[1] = "LogsServiceForwarder"
    /\ svc[2] = "MetricsServiceForwarder"
    /\ svc[3] = "TraceServiceForwarder"
    /\ \A c \in Started : pc[c] = "done" /\ result[c].ok
    /\ queue = <<>>
    /\ Len(received) = 3
    /\ received[1].variant = "Logs"
    /\ received[2].variant = "Metrics"
    /\ received[3].variant = "Trace"

\* ------------------------------------------------------------------- C5
\* C5: a callback service's export invokes the stored handler exactly once,
\* with the incoming request, and returns the handler's own result: the
\* success value of an always-succeeding handler, the same error of an
\* always-failing one, whatever the payload and the other calls in flight.
C5_CallbackPassThrough ==
    \A c \in Calls :
        svc[c] \in CallbackServices =>
            /\ Cardinality(InvokedBy(c)) = (IF pc[c] = "done" THEN 1 ELSE 0)
            /\ \A i \in InvokedBy(c) : invoked[i].req = request[c]
            /\ pc[c] = "done" => result[c] = handler[request[c].payload]
            /\ (pc[c] = "done" /\ \A p \in Payloads : handler[p].ok) =>
                  result[c] = OkResponse(SignalOf(svc[c]))
            /\ (pc[c] = "done" /\ \A p \in Payloads : handler[p] = HandlerError) =>
                  result[c] = HandlerError

\* An always-failing handler: the second of two overlapping calls has
\* returned the handler's error while the first has not run yet.
C5_Witness ==
    /\ services = {"OtelTraceService"}
    /\ \A p \in Payloads : handler[p] = HandlerError
    /\ ncalls >= 2
    /\ pc[1] = "called"
    /\ pc[2] = "done"
    /\ result[2] = HandlerError
    /\ Cardinality(InvokedBy(2)) = 1

\* ------------------------------------------------------------------- C6
\* C6: no step taken while the channel is open and full completes a
\* pending forwarder export, pushes its item or gives it a result (only the
\* transport's cancellation takes it out of the pending states).  A
\* suspended export completes only in a state where the channel is closed
\* (then with the delivery error and no push) or has room (then with
\* success and its item appended); an error is returned only on a closed
\* channel.
C6_FullQueueSuspends ==
    [][\A c \in Calls :
          (svc[c] \in Forwarders /\ pc[c] \in {"called", "waiting"}) =>
              /\ (~closed /\ Len(queue) >= capacity /\ pc'[c] # "cancelled") =>
                    /\ pc'[c] \in {"called", "waiting"}
                    /\ result'[c] = NoResult
                    /\ sent' = sent
              /\ (pc[c] = "waiting" /\ pc'[c] = "done") =>
                    IF closed
                    THEN /\ result'[c] = DeliveryError(SignalOf(svc[c]))
                         /\ queue' = queue
                         /\ sent' = sent
                    ELSE /\ Len(queue) < capacity
                         /\ result'[c].ok
                         /\ queue' = Append(queue, Expected(c))
              /\ (pc'[c] = "done" /\ ~result'[c].ok) => closed]_vars

\* A call suspended on the open, full channel, its item nowhere yet.
C6_Witness ==
    \E c \in Calls :
        /\ svc[c] \in Forwarders
        /\ pc[c] = "waiting"
        /\ ~closed
        /\ Len(queue) = capacity
        /\ result[c] = NoResult
        /\ SentBy(c) = {}
        /\ Occurrences(Stream, Expected(c)) = 0

\* ------------------------------------------------------------------- C7
\* C7: the step in which a forwarder export returns success is the step in
\* which the channel accepts its item: the item is then the newest in the
\* buffer and nothing is read by that step; and on an open channel with
\* free capacity a poll of export completes with success whatever the
\* consumer has or has not read.
C7_AcceptedNotProcessed ==
    [][\A c \in Calls :
          (svc[c] \in Forwarders /\ pc[c] \in {"called", "waiting"}) =>
              /\ (pc'[c] = "done" /\ result'[c].ok) =>
                    /\ queue' = Append(queue, Expected(c))
                    /\ received' = received
              /\ (~closed /\ Len(queue) < capacity
                    /\ pc'[c] # pc[c] /\ pc'[c] # "cancelled") =>
                    /\ pc'[c] = "done"
                    /\ result'[c].ok]_vars

\* Success returned, the item still buffered, nothing ever read and no
\* Receiver left to read it.
C7_Witness ==
    \E c \in Calls :
        /\ svc[c] \in Forwarders
        /\ result[c].ok
        /\ received = <<>>
        /\ ~receivers
        /\ Occurrences(queue, Expected(c)) = 1

\* ------------------------------------------------------------------- C8
\* C8: the consumer's stream (what it has read followed by what is still
\* buffered) is exactly the sequence of items in the order their pushes
\* completed, for a single forwarder and for the three sharing the tagged
\* queue; so each signal's events keep their push order, whatever the
\* order in which the calls started.
C8_FifoByEnqueue ==
    /\ Len(Stream) = Len(sent)
    /\ \A i \in 1..Len(sent) : Stream[i] = sent[i].item

\* Combined mode: the call that started second pushed first and is read
\* first.
C8_Witness ==
    /\ services = AllForwarders
    /\ Len(sent) = 2
    /\ sent[1].call = 2
    /\ sent[2].call = 1
    /\ svc[1] # svc[2]
    /\ received = <<Expected(2), Expected(1)>>

\* ------------------------------------------------------------------- C9
\* C9: no request is ever pushed more than once; a call cancelled while
\* its send was pending has no success value and at most one item of its
\* own on the queue; and a pushed item always belongs to a call that has
\* returned its success value.
C9_AbandonedSend ==
    \A c \in Calls :
        /\ Cardinality(SentBy(c)) <= 1
        /\ pc[c] = "cancelled" => (~result[c].ok /\ result[c] = NoResult)
        /\ SentBy(c) # {} => (pc[c] = "done" /\ result[c].ok)

\* Cancelled while suspended on the full channel: nothing of it anywhere.
C9_Witness ==
    \E c \in Calls :
        /\ svc[c] \in Forwarders
        /\ pc[c] = "cancelled"
        /\ Len(queue) = capacity
        /\ SentBy(c) = {}
        /\ result[c] = NoResult

\* ------------------------------------------------------------------ C10
\* C10: the task of all::make leaves "serving" only by a step that is no
\* export and no channel operation (the listener's shutdown or a fatal
\* transport error): a step that polls, completes or cancels a call, or
\* reads or closes the channel, leaves it serving, delivery errors
\* included.
C10_ServingThroughErrors ==
    [][(services = AllForwarders /\ server = "serving" /\ server' # "serving") =>
          /\ pc' = pc
          /\ result' = result
          /\ ncalls' = ncalls
          /\ queue' = queue
          /\ closed' = closed
          /\ receivers' = receivers
          /\ received' = received]_vars

\* Still serving after a delivery error on one endpoint; a later call on
\* another endpoint has been taken and answered.
C10_Witness ==
    /\ services = AllForwarders
    /\ server = "serving"
    /\ ~overlapped
    /\ ncalls >= 2
    /\ svc[1] # svc[2]
    /\ result[1] = DeliveryError(SignalOf(svc[1]))
    /\ pc[2] = "done"

\* ------------------------------------------------------------------ C11
Signals == {"Logs", "Metrics", "Trace"}

\* The single-signal constructions on offer for signal sig: callback
\* services (make_service) and forwarders over a queue of the signal's own
\* request type (make_forwarder).
CallbackFor(sig) ==
    {s \in CallbackServices : SignalOf(s) = sig /\ {s} \in Deployments}

ForwarderFor(sig) ==
    {s \in SingleForwarders : SignalOf(s) = sig /\ {s} \in Deployments}

\* C11: whatever was deployed, every one of the three signals has a
\* single-signal forwarder to build beside its callback service.
C11_ForwarderPerSignal ==
    services \in Deployments =>
        \A sig \in Signals : CallbackFor(sig) # {} /\ ForwarderFor(sig) # {}

\* ------------------------------------------------------------------ C12
\* The runtime polls every export future that can make progress (a woken
\* task is run), and the consumer keeps reading while it holds a Receiver
\* and the buffer is not empty.  Closing the channel is left to the
\* environment: DropReceivers and Close are not forced.
FairSpec ==
    /\ Spec
    /\ \A c \in Calls : WF_vars(ForwarderExport(c))
    /\ \A c \in Calls : WF_vars(CallbackExport(c))
    /\ WF_vars(Recv)

InFlight(c) == pc[c] \in {"called", "waiting"}

=============================================================================
